---- MODULE Spec2Model ----
(***************************************************************************)
(* Lead capture server (src/server.js) and the leads printing script       *)
(* (src/unnamed/part_000).  src/server.js holds two variants of the server *)
(* program: the MongoDB/mongoose one (lines 1-127) and the SQLite one      *)
(* (lines 129-210).  One run of the model is one run of one variant.       *)
(*                                                                         *)
(* A request occupies a slot while its handler waits for the store; `out`  *)
(* holds what the step just taken wrote (an HTTP response, or the lines    *)
(* the script printed), or NoOutput.                                       *)
(***************************************************************************)
EXTENDS Integers, Sequences, FiniteSets, TLC

VARIABLES
    variant,    \* "mongo" | "sqlite": which program of src/server.js runs
    env,        \* TRUE iff process.env.MONGO_URI is set
    proc,       \* top-level script position: "boot" | "listen" | "loop" | "exited"
    listening,  \* TRUE iff app.listen has been called and the process lives
    conn,       \* shared store handle: "none" | "pending" | "open" | "failed"
    clock,      \* the wall clock read by new Date()
    store,      \* the Lead collection / leads table, in commit order
    origin,     \* for each element of store: how it got there (history)
    nextId,     \* next identifier the id source hands out
    reqs,       \* the request slots: what each request waits for
    out         \* what the last step wrote: a response, the script's print

vars == <<variant, env, proc, listening, conn, clock, store, origin, nextId,
          reqs, out>>

----------------------------------------------------------------------------
(* Bounds *)

MaxReq == 2
MaxPosts == 2
MaxTicks == 1

Slots == 1..MaxReq

----------------------------------------------------------------------------
(* Values *)

\* The clock's reading when the process starts.
Epoch == 9

\* JavaScript undefined: a form field that was not sent, a missing property.
Absent == "<undefined>"

\* A null submission_date of a stored document.
NullDate == -1

Variants == {"mongo", "sqlite"}

NameValues == {Absent, "", "Ann"}
EmailValues == {Absent, "", "a@x.com"}
MessageValues == {Absent, "", "hello"}
TelValues == {Absent, "", "555"}

Forms == [name : NameValues, email : EmailValues,
          message : MessageValues, tel : TelValues]

EmptyForm == [name |-> Absent, email |-> Absent, message |-> Absent, tel |-> Absent]

\* What arrives on the wire: a form, or a request with no body at all.
RawRequests == [hasBody : {TRUE}, form : Forms]
                 \cup {[hasBody |-> FALSE, form |-> EmptyForm]}

\* The requests with at most one field missing or empty, and the request
\* with no body.
FilledForm == [name |-> "Ann", email |-> "a@x.com", message |-> "hello", tel |-> "555"]

SampleRequests ==
    {raw \in RawRequests :
        \/ ~raw.hasBody
        \/ Cardinality({k \in DOMAIN FilledForm : raw.form[k] # FilledForm[k]}) <= 1}

ErrorMessages == {"connection lost"}

\* !x for a string or undefined
Falsy(v) == v = Absent \/ v = ""

\* obj.key of a document: undefined when the document has no such property
Prop(obj, key) == IF key \in DOMAIN obj THEN obj[key] ELSE Absent

----------------------------------------------------------------------------
(* Responses *)

Redirect(location) == [status |-> 302, location |-> location]
SendText(status, text) == [status |-> status, body |-> text]
SendJson(status, value) == [status |-> status, json |-> value]

NoOutput == [op |-> "none"]

SuccessPage == "/thank_you.html?status=success"
ErrorPage == "/thank_you.html?status=error"
PlainThanks == "/thank_you.html"
GenericFetchError == "Failed to fetch leads from database"

----------------------------------------------------------------------------
(* Date.prototype.toISOString and the order of its results *)

\* A faulty toISOString, for checking that the properties notice: the
\* number written without padding.
ToISOString_Unpadded(t) == IF t < 10 THEN <<t>> ELSE <<t \div 10, t % 10>>

\* toISOString writes every component of the date zero padded to a fixed
\* width; the model's dates have one component, written in two digits.
ToISOString(t) == <<t \div 10, t % 10>>

\* memcmp order of two texts (SQLite's BINARY collation): TRUE iff a >= b
TextGeq(a, b) ==
    LET n == IF Len(a) < Len(b) THEN Len(a) ELSE Len(b)
        diff == {i \in 1..n : a[i] # b[i]}
    IN  IF diff = {}
        THEN Len(a) >= Len(b)
        ELSE LET k == CHOOSE i \in diff : \A j \in diff : i <= j
             IN  a[k] > b[k]

\* submission_date of x sorts at or after that of y: a Date in MongoDB
\* (null below every date), a TEXT column in SQLite
DateGeq(v, x, y) ==
    IF v = "mongo" THEN x >= y ELSE TextGeq(x, y)

----------------------------------------------------------------------------
(* The store's ordered read: find({}).sort({submission_date: -1}) and *)
(* SELECT ... ORDER BY submission_date DESC *)

\* x placed behind every element of the sorted sequence that sorts at or
\* after it, so elements with equal dates keep the store's order
InsertDesc(v, sorted, x) ==
    LET ahead == {i \in 1..Len(sorted) :
                    \A j \in 1..i : DateGeq(v, sorted[j].submission_date, x.submission_date)}
        k == Cardinality(ahead)
    IN  SubSeq(sorted, 1, k) \o <<x>> \o SubSeq(sorted, k + 1, Len(sorted))

\* A faulty ordered read: the rows in the order of the store.
SortDesc_StoreOrder(v, s) == s

RECURSIVE SortDesc(_, _)
SortDesc(v, s) ==
    IF s = <<>> THEN <<>>
    ELSE InsertDesc(v, SortDesc(v, SubSeq(s, 1, Len(s) - 1)), s[Len(s)])

----------------------------------------------------------------------------
(* POST /submit_contact *)

\* req.body as the body parsing middleware leaves it.  For a request with no
\* body the property is an empty object or stays undefined, depending on the
\* installed express; the repository pins no version.
BodyParser(raw) ==
    IF raw.hasBody
    THEN {[defined |-> TRUE, form |-> raw.form]}
    ELSE {[defined |-> TRUE, form |-> EmptyForm], [defined |-> FALSE, form |-> EmptyForm]}

\* server.js line 70
MissingFieldsMongo(form) ==
    Falsy(form.name) \/ Falsy(form.email) \/ Falsy(form.message) \/ Falsy(form.tel)

\* A faulty check: && where the handler has ||.
MissingFieldsSqlite_All(form) ==
    Falsy(form.name) /\ Falsy(form.email) /\ Falsy(form.message)

\* server.js line 166
MissingFieldsSqlite(form) ==
    Falsy(form.name) \/ Falsy(form.email) \/ Falsy(form.message)

\* A faulty constructor call: project_details taken from the name field.
NewLead_Mixed(form, id, now) ==
    [id |-> id,
     full_name |-> form.name,
     tel |-> form.tel,
     email_address |-> form.email,
     project_details |-> form.name,
     submission_date |-> now]

\* new Lead({...}), server.js lines 76-83; _id is assigned by the constructor
NewLead(form, id, now) ==
    [id |-> id,
     full_name |-> form.name,
     tel |-> form.tel,
     email_address |-> form.email,
     project_details |-> form.message,
     submission_date |-> now]

\* the parameters bound to the INSERT, server.js lines 164 and 173-176
InsertParams(form, now) ==
    [full_name |-> form.name,
     email_address |-> form.email,
     project_details |-> form.message,
     submission_date |-> ToISOString(now)]

\* The synchronous part of the MongoDB handler: a response, or a save.
SubmitContactMongo(body, id, now) ==
    IF ~body.defined
    THEN [act |-> "respond", resp |-> Redirect(ErrorPage)]
    ELSE IF MissingFieldsMongo(body.form)
    THEN [act |-> "respond", resp |-> Redirect(ErrorPage)]
    ELSE [act |-> "insert", doc |-> NewLead(body.form, id, now)]

\* The synchronous part of the SQLite handler.  Destructuring an undefined
\* req.body throws; express answers a thrown handler with its own 500 page.
SubmitContactSqlite(body, now) ==
    IF ~body.defined
    THEN [act |-> "respond", resp |-> SendText(500, "express error page: TypeError")]
    ELSE IF MissingFieldsSqlite(body.form)
    THEN [act |-> "respond", resp |-> SendText(400, "Error: Missing Required Fields!")]
    ELSE [act |-> "insert", doc |-> InsertParams(body.form, now)]

SubmitContact(v, body, id, now) ==
    IF v = "mongo" THEN SubmitContactMongo(body, id, now)
    ELSE SubmitContactSqlite(body, now)

\* A faulty insert: the newest document is overwritten.
StoreInsert_Overwrite(v, st, doc, id) ==
    IF st = <<>> THEN <<doc>> ELSE [st EXCEPT ![Len(st)] = doc]

\* The collection after a committed insert.  mongoose sends the _id the
\* constructor chose; SQLite gives the row the next AUTOINCREMENT value.
StoreInsert(v, st, doc, id) ==
    IF v = "mongo" THEN Append(st, doc)
    ELSE Append(st, [id |-> id,
                     full_name |-> doc.full_name,
                     email_address |-> doc.email_address,
                     project_details |-> doc.project_details,
                     submission_date |-> doc.submission_date])

\* A faulty answer: success whatever the write did.
InsertResponse_Always(v, committed) ==
    IF v = "mongo" THEN Redirect(SuccessPage) ELSE Redirect(PlainThanks)

\* What the handler answers once the write has settled
\* (server.js lines 85-94 and 176-185).
InsertResponse(v, committed) ==
    IF v = "mongo"
    THEN IF committed THEN Redirect(SuccessPage) ELSE Redirect(ErrorPage)
    ELSE IF committed THEN Redirect(PlainThanks)
         ELSE SendText(500, "An internal server error occurred while saving your data.")

----------------------------------------------------------------------------
(* GET /api/leads *)

\* lead => ({...}), server.js lines 105-113
FormatLead(lead) ==
    [id |-> lead.id,
     full_name |-> lead.full_name,
     tel |-> IF Falsy(Prop(lead, "tel")) THEN "N/A" ELSE lead.tel,
     email_address |-> lead.email_address,
     project_details |-> lead.project_details,
     submission_date |-> ToISOString(lead.submission_date)]

\* lead.submission_date.toISOString() throws on a null date
FormatThrows(rows) == \E i \in 1..Len(rows) : rows[i].submission_date = NullDate

\* A faulty 500 answer: the failure's own message is sent.
FetchErrorBody_Leaky(message) == [error |-> message]

\* The body of the 500 answer (server.js lines 119 and 197)
FetchErrorBody(message) == [error |-> GenericFetchError]

\* What the handler answers once the read has settled.
LeadsResponse(v, ok, rows, message) ==
    IF ~ok THEN SendJson(500, FetchErrorBody(message))
    ELSE IF v = "mongo"
    THEN IF FormatThrows(rows)
         THEN SendJson(500, FetchErrorBody("Cannot read properties of null"))
         ELSE SendJson(200, [i \in 1..Len(rows) |-> FormatLead(rows[i])])
    ELSE SendJson(200, rows)

----------------------------------------------------------------------------
(* Process start *)

\* A faulty start: the missing connection string is not checked.
BootOutcome_Unchecked(v, uriSet) == "listen"

\* server.js lines 18-26 (MongoDB) and 137 (SQLite): where the top-level
\* script goes after reading its configuration
BootOutcome(v, uriSet) ==
    IF v = "mongo" /\ ~uriSet THEN "exited" ELSE "listen"

\* server.js lines 28-31 (MongoDB: process.exit) and 138-139 (SQLite: a log
\* line): where the process is after the first connection attempt failed
ConnectFailOutcome(v) ==
    IF v = "mongo" THEN "exited" ELSE "loop"

----------------------------------------------------------------------------
(* Initial state *)

\* Documents written to the store before this process started: none, a lead
\* from before the tel field existed, or (MongoDB, whose schema does not
\* require the field) a document whose submission_date is null.
LegacyLead(v) ==
    [id |-> 1, full_name |-> "Zed", email_address |-> "z@x.com",
     project_details |-> "old",
     submission_date |-> IF v = "mongo" THEN Epoch - 1 ELSE ToISOString(Epoch - 1)]

UndatedLead ==
    [id |-> 1, full_name |-> "Zed", email_address |-> "z@x.com",
     project_details |-> "old", submission_date |-> NullDate]

Seeds(v) ==
    IF v = "mongo" THEN {<<>>, <<LegacyLead(v)>>, <<UndatedLead>>}
    ELSE {<<>>, <<LegacyLead(v)>>}

Idle == [pc |-> "idle"]

Init ==
    /\ variant \in Variants
    /\ env \in (IF variant = "mongo" THEN BOOLEAN ELSE {FALSE})
    /\ proc = "boot"
    /\ listening = FALSE
    /\ conn = "none"
    /\ clock = Epoch
    /\ store \in Seeds(variant)
    /\ origin = [i \in 1..Len(store) |-> [by |-> "seed"]]
    /\ nextId = Len(store) + 1
    /\ reqs = [r \in Slots |-> Idle]
    /\ out = NoOutput

----------------------------------------------------------------------------
(* Actions of the server *)

Seeded == Cardinality({i \in 1..Len(origin) : origin[i].by = "seed"})

InFlightPosts == Cardinality({r \in Slots : reqs[r].pc = "saving"})

\* The bound on accepted submissions: identifiers handed out, plus (SQLite,
\* which numbers a row when it commits) the writes still pending.
PostBudgetLeft ==
    nextId + (IF variant = "sqlite" THEN InFlightPosts ELSE 0) <= Seeded + MaxPosts

\* A new request takes the lowest free slot.
FreeSlot ==
    IF \A r \in Slots : reqs[r].pc # "idle" THEN 0
    ELSE CHOOSE r \in Slots : reqs[r].pc = "idle" /\ \A q \in 1..(r - 1) : reqs[q].pc # "idle"

\* The top-level script up to the connection attempt.
Boot ==
    /\ proc = "boot"
    /\ proc' = BootOutcome(variant, env)
    /\ conn' = IF proc' = "exited" THEN conn ELSE "pending"
    /\ out' = NoOutput
    /\ UNCHANGED <<variant, env, listening, clock, store, origin, nextId, reqs>>

\* app.listen, server.js lines 125 and 207
Listen ==
    /\ proc = "listen"
    /\ proc' = "loop"
    /\ listening' = TRUE
    /\ out' = NoOutput
    /\ UNCHANGED <<variant, env, conn, clock, store, origin, nextId, reqs>>

\* mongoose.connect resolves / the sqlite3.Database callback runs without error
ConnectOk ==
    /\ proc = "loop"
    /\ conn = "pending"
    /\ conn' = "open"
    /\ out' = NoOutput
    /\ UNCHANGED <<variant, env, proc, listening, clock, store, origin, nextId, reqs>>

\* the first connection attempt fails; an exiting process drops its requests
ConnectFail ==
    /\ proc = "loop"
    /\ conn = "pending"
    /\ conn' = "failed"
    /\ proc' = ConnectFailOutcome(variant)
    /\ listening' = (proc' # "exited")
    /\ reqs' = IF proc' = "exited" THEN [r \in Slots |-> Idle] ELSE reqs
    /\ out' = NoOutput
    /\ UNCHANGED <<variant, env, clock, store, origin, nextId>>

Tick ==
    /\ clock < Epoch + MaxTicks
    /\ clock' = clock + 1
    /\ out' = NoOutput
    /\ UNCHANGED <<variant, env, proc, listening, conn, store, origin, nextId, reqs>>

\* The handler of POST /submit_contact up to its first response or await.
PostSubmit(r, raw) ==
    /\ listening
    /\ r = FreeSlot
    /\ \E body \in BodyParser(raw) :
         LET res == SubmitContact(variant, body, nextId, clock)
         IN  IF res.act = "respond"
             THEN /\ out' = [op |-> "post", resp |-> res.resp]
                  /\ UNCHANGED <<reqs, nextId>>
             ELSE /\ PostBudgetLeft
                  /\ reqs' = [reqs EXCEPT ![r] =
                                [pc |-> "saving", raw |-> raw,
                                 doc |-> res.doc, seen |-> Len(store)]]
                  /\ nextId' = IF variant = "mongo" THEN nextId + 1 ELSE nextId
                  /\ out' = NoOutput
    /\ UNCHANGED <<variant, env, proc, listening, conn, clock, store, origin>>

\* The store commits the pending write and the handler, resumed after the
\* await / in the db.run callback, answers (server.js lines 85-89, 176-184).
InsertCommit(r) ==
    /\ reqs[r].pc = "saving"
    /\ conn = "open"
    /\ store' = StoreInsert(variant, store, reqs[r].doc, nextId)
    /\ origin' = Append(origin, [by |-> "post", raw |-> reqs[r].raw, seen |-> reqs[r].seen])
    /\ nextId' = IF variant = "sqlite" THEN nextId + 1 ELSE nextId
    /\ reqs' = [reqs EXCEPT ![r] = Idle]
    /\ out' = [op |-> "post", resp |-> InsertResponse(variant, TRUE)]
    /\ UNCHANGED <<variant, env, proc, listening, conn, clock>>

\* The store rejects the pending write, or the connection fails it, and the
\* handler answers from its catch / its callback (lines 90-94, 177-180).
InsertFail(r, message) ==
    /\ reqs[r].pc = "saving"
    /\ reqs' = [reqs EXCEPT ![r] = Idle]
    /\ out' = [op |-> "post", resp |-> InsertResponse(variant, FALSE)]
    /\ UNCHANGED <<variant, env, proc, listening, conn, clock, store, origin, nextId>>

\* The handler of GET /api/leads issues its query.
GetLeads(r) ==
    /\ listening
    /\ r = FreeSlot
    /\ reqs' = [reqs EXCEPT ![r] = [pc |-> "finding"]]
    /\ out' = NoOutput
    /\ UNCHANGED <<variant, env, proc, listening, conn, clock, store, origin, nextId>>

\* The store answers the query with its contents, ordered, and the handler
\* formats and sends them (server.js lines 102-116, 194-201).
FindCommit(r) ==
    /\ reqs[r].pc = "finding"
    /\ conn = "open"
    /\ reqs' = [reqs EXCEPT ![r] = Idle]
    /\ out' = [op |-> "get",
               resp |-> LeadsResponse(variant, TRUE, SortDesc(variant, store), Absent)]
    /\ UNCHANGED <<variant, env, proc, listening, conn, clock, store, origin, nextId>>

\* The query fails and the handler answers from its catch / its callback
\* (server.js lines 117-120, 195-199).
FindFail(r, message) ==
    /\ reqs[r].pc = "finding"
    /\ reqs' = [reqs EXCEPT ![r] = Idle]
    /\ out' = [op |-> "get", resp |-> LeadsResponse(variant, FALSE, <<>>, message)]
    /\ UNCHANGED <<variant, env, proc, listening, conn, clock, store, origin, nextId>>

----------------------------------------------------------------------------
(* printAllLeads, src/unnamed/part_000.  It opens its own connection to the *)
(* MongoDB collection the server writes and reads the collection once.      *)

\* How many leads the loop of part_000 lines 50-63 prints before
\* lead.submission_date.toLocaleDateString throws on a null date.
PrintedBeforeThrow(leads) ==
    Cardinality({i \in 1..Len(leads) :
                   \A j \in 1..i : leads[j].submission_date # NullDate})

\* What one run of the script prints: nothing without MONGO_URI or when
\* connect or find fails (part_000 lines 27-31, 66-68), else the leads.
PrintAllLeads(uriSet, how, st) ==
    IF uriSet /\ how = "ok" THEN PrintedBeforeThrow(SortDesc("mongo", st)) ELSE 0

\* One run of the script.
ScriptRun(how) ==
    /\ variant = "mongo"
    /\ out' = [op |-> "script", printed |-> PrintAllLeads(env, how, store)]
    /\ UNCHANGED <<variant, env, proc, listening, conn, clock, store, origin, nextId, reqs>>

----------------------------------------------------------------------------

\* The server with both routes, and the script beside it.
Next ==
    \/ Boot
    \/ Listen
    \/ ConnectOk
    \/ ConnectFail
    \/ Tick
    \/ \E r \in Slots, raw \in SampleRequests : PostSubmit(r, raw)
    \/ \E r \in Slots : InsertCommit(r)
    \/ \E r \in Slots, m \in ErrorMessages : InsertFail(r, m)
    \/ \E r \in Slots : GetLeads(r)
    \/ \E r \in Slots : FindCommit(r)
    \/ \E r \in Slots, m \in ErrorMessages : FindFail(r, m)
    \/ \E how \in {"ok", "connect failed", "find failed"} : ScriptRun(how)

Spec == Init /\ [][Next]_vars

\* The server receiving submissions only, of every form.
NextSubmit ==
    \/ Boot
    \/ Listen
    \/ ConnectOk
    \/ ConnectFail
    \/ Tick
    \/ \E r \in Slots, raw \in RawRequests : PostSubmit(r, raw)
    \/ \E r \in Slots : InsertCommit(r)
    \/ \E r \in Slots, m \in ErrorMessages : InsertFail(r, m)

SpecSubmit == Init /\ [][NextSubmit]_vars

----------------------------------------------------------------------------
(* Vocabulary of the properties *)

IsRedirectTo(resp, pages) == "location" \in DOMAIN resp /\ resp.location \in pages

\* the success indicator of either variant
IsSuccess(resp) == IsRedirectTo(resp, {SuccessPage, PlainThanks})

\* name, email and message are all sent and non-empty
HasNameEmailMessage(raw) ==
    /\ raw.hasBody
    /\ ~Falsy(raw.form.name) /\ ~Falsy(raw.form.email) /\ ~Falsy(raw.form.message)

\* the step answers a submission at once, without going to the store
AnsweredAtOnce == out'.op = "post" /\ reqs' = reqs

\* the step hands the submission in slot r to the store
HandedToStore(r) == reqs[r].pc = "idle" /\ reqs'[r].pc = "saving"

\* the step settles the write of slot r, the process living on
WriteSettled(r) == reqs[r].pc = "saving" /\ reqs'[r].pc = "idle" /\ listening'

\* the step settles the query of slot r, the process living on
ReadSettled(r) == reqs[r].pc = "finding" /\ reqs'[r].pc = "idle" /\ listening'

\* the submission_date a handler stores when the clock reads t
Stamp(t) == IF variant = "mongo" THEN t ELSE ToISOString(t)

PostLeads == {i \in 1..Len(store) : origin[i].by = "post"}

----------------------------------------------------------------------------
(* C1 *)

\* C1 as claimed: every submission with non-empty name, email and message,
\* tel present or not, goes to the store (and is not answered with a
\* rejection) in both variants.
C1_AnyTelIsStored ==
    [][\A raw \in RawRequests :
          HasNameEmailMessage(raw) /\ PostSubmit(FreeSlot, raw) => HandedToStore(FreeSlot)]_vars

Filled(values) == {x \in values : ~Falsy(x)}

\* the submissions each variant accepts: the MongoDB handler also wants tel
AcceptedRaws ==
    [hasBody : {TRUE},
     form : [name : Filled(NameValues), email : Filled(EmailValues),
             message : Filled(MessageValues),
             tel : IF variant = "mongo" THEN Filled(TelValues) ELSE TelValues]]

\* C1, amended: for a submission with non-empty name, email and message
\* (and, in the MongoDB variant, a non-empty tel) the handler never answers
\* at once but issues an insert; the insert it hands to the store carries
\* the clock's reading as its date; when the store commits that write, the collection grows by exactly one Lead, which carries the
\* submitted name, email and message and that date.
C1_AcceptedSubmissionStored ==
    /\ [](\A raw \in AcceptedRaws : \A body \in BodyParser(raw) :
             SubmitContact(variant, body, nextId, clock).act = "insert")
    /\ [][\A r \in Slots :
            /\ HandedToStore(r) =>
                 /\ reqs'[r].raw \in AcceptedRaws
                 /\ reqs'[r].doc.submission_date = Stamp(clock)
                 /\ store' = store
            /\ WriteSettled(r) /\ IsSuccess(out'.resp) =>
                 /\ Len(store') = Len(store) + 1
                 /\ SubSeq(store', 1, Len(store)) = store
                 /\ LET lead == store'[Len(store')]
                        form == reqs[r].raw.form
                    IN  /\ lead.full_name = form.name
                        /\ lead.email_address = form.email
                        /\ lead.project_details = form.message
                        /\ lead.submission_date = reqs[r].doc.submission_date]_vars

\* a submission without tel has been stored and answered with success
C1_Witness ==
    /\ out.op = "post" /\ IsSuccess(out.resp)
    /\ origin[Len(store)].by = "post"
    /\ Falsy(origin[Len(store)].raw.form.tel)
    /\ store[Len(store)].full_name = "Ann"

----------------------------------------------------------------------------
(* C2 *)

\* C2: a submission in which name, email or message is missing or empty (or
\* that has no body) issues no insert, leaves the collection as it is and is
\* answered with the error redirect or a 400, never with success.
C2_InvalidRejected ==
    [][\A raw \in RawRequests :
          ~HasNameEmailMessage(raw) /\ PostSubmit(FreeSlot, raw) =>
              /\ AnsweredAtOnce
              /\ store' = store
              /\ ~IsSuccess(out'.resp)
              /\ IsRedirectTo(out'.resp, {ErrorPage}) \/ out'.resp.status = 400]_vars

\* What remains of C2 when the 500 page that express sends for the handler
\* that threw counts as a failure indicator too.
C2_InvalidNeverStored ==
    [][listening /\ FreeSlot # 0
         /\ (~AnsweredAtOnce \/ store' # store \/ IsSuccess(out'.resp)) =>
            ~ \E raw \in RawRequests :
                  ~HasNameEmailMessage(raw) /\ PostSubmit(FreeSlot, raw)]_vars

----------------------------------------------------------------------------
(* C3 *)

\* C3: a GET answered with status 200 returns every Lead the collection
\* holds exactly once, in non-increasing order of submission_date (the
\* returned ISO texts compared as texts); for an empty collection that is
\* the empty list.
C3_LeadsOrdered ==
    [][\A r \in Slots :
         ReadSettled(r) /\ out'.resp.status = 200 =>
            LET list == out'.resp.json
            IN  /\ Len(list) = Len(store)
                /\ \A i \in 1..Len(store) :
                     Cardinality({k \in 1..Len(list) : list[k].id = store[i].id}) = 1
                /\ \A k \in 1..(Len(list) - 1) :
                     TextGeq(list[k].submission_date, list[k + 1].submission_date)]_vars

\* a list of three Leads was returned, the newest first, while the store
\* holds them oldest first
C3_Witness ==
    /\ out.op = "get" /\ out.resp.status = 200
    /\ Len(out.resp.json) = 3
    /\ out.resp.json[1].id = store[3].id
    /\ out.resp.json[1].submission_date # out.resp.json[3].submission_date

----------------------------------------------------------------------------
(* C4 *)

\* the position in the store of the Lead with this identifier
IndexOf(id) == CHOOSE i \in 1..Len(store) : store[i].id = id

\* C4: every element GET /api/leads returns for a Lead stored through a
\* submission has the submitted name, email and message and a tel field,
\* which is the submitted tel, or 'N/A' when none was sent.
C4_RoundTrip ==
    out.op = "get" /\ out.resp.status = 200 =>
        \A k \in 1..Len(out.resp.json) :
            LET e == out.resp.json[k]
                i == IndexOf(e.id)
            IN  origin[i].by = "post" =>
                  LET form == origin[i].raw.form
                  IN  /\ e.full_name = form.name
                      /\ e.email_address = form.email
                      /\ e.project_details = form.message
                      /\ "tel" \in DOMAIN e
                      /\ e.tel = IF Falsy(form.tel) THEN "N/A" ELSE form.tel

\* The same round trip without the tel field, which the SQLite variant
\* neither stores nor returns.
C4_RoundTripExceptTel ==
    out.op = "get" /\ out.resp.status = 200 =>
        \A k \in 1..Len(out.resp.json) :
            LET e == out.resp.json[k]
                i == IndexOf(e.id)
            IN  origin[i].by = "post" =>
                  LET form == origin[i].raw.form
                  IN  /\ e.full_name = form.name
                      /\ e.email_address = form.email
                      /\ e.project_details = form.message
                      /\ variant = "mongo" => e.tel = form.tel

----------------------------------------------------------------------------
(* C5 *)

\* the failure indicator of a failed write
IsWriteFailure(resp) == IsRedirectTo(resp, {ErrorPage}) \/ resp.status = 500

\* what the step that takes a pending write out of slot r has to do:
\* answer, once, with success and one more Lead or with the failure
\* indicator and the collection as it was, and free the slot
AnswersWrite(r) ==
    /\ out'.op = "post"
    /\ reqs'[r] = Idle
    /\ \A q \in Slots \ {r} : reqs'[q] = reqs[q]
    /\ \/ /\ IsSuccess(out'.resp)
          /\ Len(store') = Len(store) + 1
          /\ SubSeq(store', 1, Len(store)) = store
       \/ /\ ~IsSuccess(out'.resp) /\ IsWriteFailure(out'.resp)
          /\ store' = store
    /\ conn # "open" => ~IsSuccess(out'.resp)

----------------------------------------------------------------------------
(* C6 *)

GenericFailure(resp) ==
    /\ resp.status = 500
    /\ DOMAIN resp.json = {"error"}
    /\ resp.json.error = GenericFetchError
    /\ resp.json.error \notin ErrorMessages \cup {"Cannot read properties of null"}

Undated == \E i \in 1..Len(store) : store[i].submission_date = NullDate

----------------------------------------------------------------------------
(* C7 *)

\* C7: every stored Lead has a non-empty full_name and a non-empty
\* email_address, and no two stored Leads have the same identifier.
C7_StoredLeadsWellFormed ==
    /\ \A i \in 1..Len(store) :
         ~Falsy(store[i].full_name) /\ ~Falsy(store[i].email_address)
    /\ \A i, j \in 1..Len(store) : store[i].id = store[j].id => i = j

\* two submissions that were in flight together have both committed
C7_Witness ==
    \E i, j \in PostLeads : i < j /\ origin[j].seen < i

----------------------------------------------------------------------------
(* C8 *)

\* C8 as claimed: a Lead committed before another never has the later
\* submission_date.
C8_DatesFollowCommitOrder ==
    \A i, j \in PostLeads :
        i < j => DateGeq(variant, store[j].submission_date, store[i].submission_date)

\* C8, amended: a Lead that was committed before another submission's
\* handler read the clock never has the later submission_date (the clock
\* not running backwards); two submissions in flight together may commit
\* in either order.
C8_DatesFollowHandlingOrder ==
    \A i, j \in PostLeads :
        i <= origin[j].seen =>
            DateGeq(variant, store[j].submission_date, store[i].submission_date)

\* a submission handled after an earlier one had committed, at a later
\* reading of the clock
C8_Witness ==
    \E i, j \in PostLeads :
        /\ i <= origin[j].seen
        /\ store[i].submission_date # store[j].submission_date

----------------------------------------------------------------------------
(* C9 *)

\* C9: in the MongoDB variant, without a connection string the process
\* never listens and no request is ever taken or answered, and once the
\* first connection attempt has failed the process has exited; in both
\* variants the process exits by no other step, and never by a step that
\* answers a request.
C9_StartupFatalRequestsNot ==
    /\ [](variant = "mongo" /\ ~env =>
            /\ ~listening /\ proc \in {"boot", "exited"}
            /\ out.op \notin {"post", "get"} /\ \A r \in Slots : reqs[r].pc = "idle")
    /\ [](variant = "mongo" /\ conn = "failed" => proc = "exited" /\ ~listening)
    /\ [][/\ proc' = "exited" /\ proc # "exited" =>
               \/ proc = "boot" /\ variant = "mongo" /\ ~env
               \/ conn = "pending" /\ conn' = "failed" /\ variant = "mongo"
          /\ out' # out /\ out'.op \in {"post", "get"} =>
               proc = "loop" /\ proc' = "loop" /\ listening']_vars

\* the process has exited for want of a connection string
C9_Witness == variant = "mongo" /\ ~env /\ proc = "exited"

----------------------------------------------------------------------------
(* C10 *)

\* C10: every step keeps the stored Leads as they are, in place, and adds
\* at most one; a Lead is added only by the step that commits a
\* submission's write and answers it with success; the steps of GET
\* /api/leads and of printAllLeads add nothing.
C10_CollectionOnlyGrows ==
    [][/\ Len(store') >= Len(store)
       /\ SubSeq(store', 1, Len(store)) = store
       /\ store' # store =>
            /\ Len(store') = Len(store) + 1
            /\ \E r \in Slots : WriteSettled(r)
            /\ out'.op = "post" /\ IsSuccess(out'.resp)
       /\ out'.op \in {"get", "script"} => store' = store]_vars

\* the script has printed a collection that holds two submitted Leads
C10_Witness ==
    /\ out.op = "script" /\ out.printed >= 2
    /\ Cardinality(PostLeads) = 2

====
